---- MODULE Spec2Model ----
(***************************************************************************)
(* Model of pytest_monitor/session.py: PyTestMonitorSession, the session   *)
(* coordinator that registers the execution context and the session in a   *)
(* local store and a remote monitor server and dispatches test metrics.    *)
(*                                                                         *)
(* Conventions.  A Python value that may be None is a sequence of length   *)
(* at most one: None is <<>> and the value v is <<v>>.  A Python string    *)
(* that the code inspects (split, replace, endswith, format) is a sequence *)
(* of tokens.  Each handler is an operator from the state record S (see    *)
(* Pack) and its inputs to the state after the call; an exception leaves   *)
(* the handler at the point it is raised, with the assignments made so far.*)
(***************************************************************************)
EXTENDS Integers, Sequences, FiniteSets, TLC

VARIABLES
    pid,             \* number of the test-run process (history)
    remote_arg,      \* the `remote` argument of __init__ (history)
    db,              \* self.__db is set
    remote,          \* self.__remote
    component,       \* self.__component (a template)
    scope,           \* self.__scope
    session,         \* self.__session
    eid,             \* self.__eid = (db id, remote id)
    mem_usage_base,  \* self.__mem_usage_base
    test_order,      \* self.__test_order
    now,             \* datetime.datetime.now(), as a tick counter
    dbContexts,      \* local store: rows of EXECUTION_CONTEXTS per ENV_H
    dbSessions,      \* local store: rows of TEST_SESSIONS
    dbMetrics,       \* local store: rows of TEST_METRICS
    srvContexts,     \* remote server: contexts created, per hash
    srvSessions,     \* remote server: sessions created
    srvMetrics,      \* remote server: metrics created
    srvSnapshots,    \* remote server: system-memory snapshots created
    calls,           \* the sink calls made by the last operation, in order
    last,            \* the last operation: its name, arguments and exception
    outage,          \* history: compute_info of this process had its context
                     \* POST rejected while the local store was configured
    ncalls,          \* number of operations called so far
    local            \* the local variables of the invocations in progress,
                     \* where a handler is followed step by step; <<>> where
                     \* every handler runs from call to return in one step

vars == <<pid, remote_arg, db, remote, component, scope, session, eid,
          mem_usage_base, test_order, now, dbContexts, dbSessions, dbMetrics,
          srvContexts, srvSessions, srvMetrics, srvSnapshots, calls, last,
          outage, ncalls, local>>

----------------------------------------------------------------------------
(* Bounds of the model *)

MaxCalls == 3
MaxProcs == 2

(* http.HTTPStatus *)
OK == 200
CREATED == 201

(* Input domains *)
None == <<>>
Some(v) == <<v>>
EmptyStr == <<"">>
Url == <<"http://monitor">>
Envs == {"e1", "e2"}
HostEnv == "e1"
Kinds == {"function", "module"}
Scopes == {{"function"}}
Templates == {<<"app", ".", "{user_component}">>}
Components == {<<>>, <<"c">>}
Items == {"test_a"}
Variants == {<<"1", "-", "2">>}
TotalTimes == {0, 2}
UserTimes == {1}
KernelTimes == {1}
MemReadings == {5}
Baselines == {2}
Scm == <<"rev">>
CiInfo == << << <<"ci">>, <<"gitlab">> >> >>
StrTag(s) == [str |-> TRUE, s |-> s, subs |-> <<>>]
SeqTag(subs) == [str |-> FALSE, s |-> <<>>, subs |-> subs]
SessionInputs ==
    { [description |-> <<"x">>, tags |-> << StrTag(<<"y", "=", "2">>) >>],
      [description |-> <<>>, tags |-> << StrTag(<<"y">>) >>] }

(* Python truthiness of self.__remote: None and "" are false *)
Truthy(x) == x # None /\ x # EmptyStr

(* The answers a request to the remote server can get: a response with a  *)
(* status code, or a transport failure (requests raises).                 *)
Resp(status) == [exc |-> FALSE, status |-> status]
TransportError == [exc |-> TRUE, status |-> 0]
GetResponses == {Resp(OK), Resp(500), TransportError}
PostResponses == {Resp(CREATED), Resp(500), TransportError}
\* the answers to draw for a request: none to choose from when the remote
\* is off, since no request is made
GetAnswers(r) == IF Truthy(r) THEN GetResponses ELSE {Resp(OK)}
PostAnswers(r) == IF Truthy(r) THEN PostResponses ELSE {Resp(CREATED)}

----------------------------------------------------------------------------

(* env.compute_hash() *)
ComputeHash(env) == "h:" \o env

(* The state record the handlers work on *)
Pack ==
    [db |-> db, remote |-> remote, component |-> component, scope |-> scope,
     session |-> session, eid |-> eid, mem_usage_base |-> mem_usage_base,
     test_order |-> test_order, now |-> now,
     dbContexts |-> dbContexts, dbSessions |-> dbSessions, dbMetrics |-> dbMetrics,
     srvContexts |-> srvContexts, srvSessions |-> srvSessions,
     srvMetrics |-> srvMetrics, srvSnapshots |-> srvSnapshots,
     calls |-> <<>>, raised |-> "", outage |-> outage]

Log(S, sink, op, arg, res) ==
    [S EXCEPT !.calls = Append(@, [sink |-> sink, op |-> op, arg |-> arg, res |-> res])]

Raise(S, exception) == [S EXCEPT !.raised = exception]

----------------------------------------------------------------------------
(* Local store (DBHandler) *)

\* query("SELECT ENV_H FROM EXECUTION_CONTEXTS WHERE ENV_H = ?"): the row or None
DbQueryRow(contexts, h) == IF contexts[h] > 0 THEN Some(h) ELSE None

DbQuery(S, h) == Log(S, "db", "query", h, DbQueryRow(S.dbContexts, h))

DbInsertExecutionContext(S, h) ==
    Log([S EXCEPT !.dbContexts[h] = @ + 1], "db", "insert_execution_context", h, Resp(OK))

DbInsertSession(S, row) ==
    Log([S EXCEPT !.dbSessions = @ \cup {row}], "db", "insert_session", row, Resp(OK))

DbInsertMetric(S, row) ==
    Log([S EXCEPT !.dbMetrics = @ \cup {row}], "db", "insert_metric", row, Resp(OK))

----------------------------------------------------------------------------
(* Remote monitor server *)

\* GET /contexts/{h} answered OK: the body's "contexts" list
SrvLookup(contexts, h) == IF contexts[h] > 0 THEN <<[h |-> h]>> ELSE <<>>

\* a POST answered CREATED stores what was posted
SrvPostContext(S, h, r) ==
    Log(IF ~r.exc /\ r.status = CREATED THEN [S EXCEPT !.srvContexts[h] = @ + 1] ELSE S,
        "remote", "POST /contexts/", h, r)

SrvPostSession(S, payload, r) ==
    Log(IF ~r.exc /\ r.status = CREATED THEN [S EXCEPT !.srvSessions = @ \cup {payload}] ELSE S,
        "remote", "POST /sessions/", payload, r)

SrvPostMetric(S, payload, r) ==
    Log(IF ~r.exc /\ r.status = CREATED THEN [S EXCEPT !.srvMetrics = @ \cup {payload}] ELSE S,
        "remote", "POST /metrics/", payload, r)

SrvPostSnapshot(S, payload, r) ==
    Log(IF ~r.exc /\ r.status = CREATED THEN [S EXCEPT !.srvSnapshots = @ \cup {payload}] ELSE S,
        "remote", "POST /system-memory/", payload, r)

----------------------------------------------------------------------------
(* get_env_id(env): look the context up in each configured sink.          *)
(* g is the answer to GET /contexts/{hash}.  The result is the state and  *)
(* the returned pair.                                                      *)

RemoteIdOfLookup(S, h, g) ==
    IF g.status = OK
    THEN LET contexts == SrvLookup(S.srvContexts, h)
         IN  IF contexts # <<>> THEN Some(contexts[1].h) ELSE None
    ELSE None

get_env_id(S, env, g) ==
    LET h == ComputeHash(env)
        S1 == IF S.db THEN DbQuery(S, h) ELSE S
        db_id == IF S.db THEN DbQueryRow(S.dbContexts, h) ELSE None
    IN  IF ~Truthy(S.remote)
        THEN [S |-> S1, ret |-> <<db_id, None>>]
        ELSE LET S2 == Log(S1, "remote", "GET /contexts/", h, g)
             IN  IF g.exc
                 THEN [S |-> Raise(S2, "ConnectionError"), ret |-> <<None, None>>]
                 ELSE [S |-> S2, ret |-> <<db_id, RemoteIdOfLookup(S, h, g)>>]

----------------------------------------------------------------------------
\* mutant: the assignment self.__remote = "" is lost
DisableRemote_kept(S) == S

(* The one-way transition of the remote sink: self.__remote = ""          *)
DisableRemote(S) == [S EXCEPT !.remote = EmptyStr]

(* set_environment_info(env).  p is the answer to POST /contexts/.        *)

\* mutant: the context is inserted whether or not the lookup found it
NeedsLocalInsert_always(S, db_id) == S.db

NeedsLocalInsert(S, db_id) == S.db /\ db_id = None

NeedsRemoteInsert(S, remote_id) == Truthy(S.remote) /\ remote_id = None

\* lines 137-138: insert the context, then read its key back
LocalRegister(S, h) ==
    LET S1 == DbInsertExecutionContext(S, h)
        S2 == DbQuery(S1, h)
        row == DbQueryRow(S1.dbContexts, h)
    IN  IF row = None
        THEN [S |-> Raise(S2, "TypeError"), db_id |-> None]
        ELSE [S |-> S2, db_id |-> row]

\* mutant: the rejected answer is raised (raise_for_status) instead of handled
ContextPostAnswered_raising(S, h, p) ==
    IF p.status # CREATED
    THEN [S |-> Raise(S, "HTTPError"), remote_id |-> None]
    ELSE [S |-> S, remote_id |-> Some(h)]

\* lines 146-151: a status other than CREATED disables the remote
ContextPostAnswered(S, h, p) ==
    IF p.status # CREATED
    THEN [S |-> DisableRemote(S), remote_id |-> None]
    ELSE [S |-> S, remote_id |-> Some(h)]

RemoteRegister(S, h, p) ==
    LET S1 == SrvPostContext(S, h, p)
    IN  IF p.exc
        THEN [S |-> Raise(S1, "ConnectionError"), remote_id |-> None]
        ELSE ContextPostAnswered(S1, h, p)

\* lines 136-138, after self.__eid = self.get_env_id(env)
LocalStep(S, h) ==
    IF NeedsLocalInsert(S, S.eid[1]) THEN LocalRegister(S, h)
    ELSE [S |-> S, db_id |-> S.eid[1]]

\* lines 139-151
RemoteStep(S, remote_id, h, p) ==
    IF NeedsRemoteInsert(S, remote_id) THEN RemoteRegister(S, h, p)
    ELSE [S |-> S, remote_id |-> remote_id]

\* line 152
AfterRemote(rem, db_id) ==
    IF rem.S.raised # "" THEN rem.S
    ELSE [rem.S EXCEPT !.eid = <<db_id, rem.remote_id>>]

AfterLocal(loc, remote_id, h, p) ==
    IF loc.S.raised # "" THEN loc.S
    ELSE AfterRemote(RemoteStep(loc.S, remote_id, h, p), loc.db_id)

\* lines 133-134
AfterLookup(looked, h, p) ==
    IF looked.S.raised # "" THEN looked.S
    ELSE AfterLocal(LocalStep([looked.S EXCEPT !.eid = looked.ret], h),
                    looked.ret[2], h, p)

set_environment_info(S, env, g, p) ==
    AfterLookup(get_env_id(S, env, g), ComputeHash(env), p)

----------------------------------------------------------------------------
(* Strings *)

\* datetime.isoformat() of a clock reading
IsoFormat(t) == <<"T" \o ToString(t)>>

\* hashlib.md5 over the concatenation of the updates, as an injective digest
Md5(data) == <<"md5">> \o data

\* s.replace(a, b) for a one-token a
RECURSIVE Replace(_, _, _)
Replace(s, a, b) ==
    IF s = <<>> THEN <<>>
    ELSE (IF Head(s) = a THEN b ELSE <<Head(s)>>) \o Replace(Tail(s), a, b)

\* template.format(user_component = c)
RECURSIVE Format(_, _)
Format(template, c) ==
    IF template = <<>> THEN <<>>
    ELSE (IF Head(template) = "{user_component}" THEN c ELSE <<Head(template)>>)
         \o Format(Tail(template), c)

\* lines 183-184: drop one trailing "."
StripDot(s) ==
    IF s # <<>> /\ s[Len(s)] = "." THEN SubSeq(s, 1, Len(s) - 1) ELSE s

\* s.split("=", 1): one part when s holds no "=", else two
FirstEq(s) ==
    IF \E i \in 1..Len(s) : s[i] = "="
    THEN CHOOSE i \in 1..Len(s) : s[i] = "=" /\ \A j \in 1..(i - 1) : s[j] # "="
    ELSE 0

Split1(s) ==
    IF FirstEq(s) = 0 THEN <<s>>
    ELSE <<SubSeq(s, 1, FirstEq(s) - 1), SubSeq(s, FirstEq(s) + 1, Len(s))>>

\* a dict that keeps the first value a key was given
SetItem_first(d, k, v) ==
    IF \E i \in 1..Len(d) : d[i][1] = k THEN d ELSE Append(d, <<k, v>>)

\* d[k] = v on a dict kept in insertion order, as a sequence of <<key, value>>
SetItem(d, k, v) ==
    IF \E i \in 1..Len(d) : d[i][1] = k
    THEN [i \in 1..Len(d) |-> IF d[i][1] = k THEN <<k, v>> ELSE d[i]]
    ELSE Append(d, <<k, v>>)

\* lines 103-104 and 107-108: _tag_info[1] raises IndexError without an "="
RECURSIVE MergePairs(_, _)
MergePairs(acc, pairs) ==
    IF ~acc.ok \/ pairs = <<>> THEN acc
    ELSE LET info == Split1(Head(pairs))
         IN  IF Len(info) < 2 THEN [ok |-> FALSE, d |-> acc.d]
             ELSE MergePairs([ok |-> TRUE, d |-> SetItem(acc.d, info[1], info[2])],
                             Tail(pairs))

\* lines 101-108: a str tag is one pair, any other tag a sequence of pairs
RECURSIVE MergeTags(_, _)
MergeTags(acc, tags) ==
    IF ~acc.ok \/ tags = <<>> THEN acc
    ELSE MergeTags(MergePairs(acc, IF Head(tags).str THEN <<Head(tags).s>>
                                   ELSE Head(tags).subs),
                   Tail(tags))

\* lines 98-109
DescriptionPayload(description, tags) ==
    MergeTags([ok |-> TRUE,
               d |-> IF description # <<>>
                     THEN SetItem(CiInfo, <<"description">>, description)
                     ELSE CiInfo],
              tags)

\* a / b as a fraction in lowest terms
RECURSIVE Gcd(_, _)
Gcd(a, b) == IF b = 0 THEN a ELSE Gcd(b, a % b)

Ratio(a, b) == <<a \div Gcd(a, b), b \div Gcd(a, b)>>

----------------------------------------------------------------------------
(* prepare(): the memory use of a no-op, as measured *)
prepare(S, base) == [S EXCEPT !.mem_usage_base = Some(base)]

(* compute_info(description, tags).  base is the measured baseline, g, p  *)
(* and s the answers to the context lookup, the context POST and the      *)
(* session POST.                                                           *)

\* lines 127-130: a status other than CREATED disables the remote
SessionPostAnswered(S, s) ==
    IF s.status # CREATED THEN DisableRemote(S) ELSE S

SubmitSession(S, payload, s) ==
    LET S1 == SrvPostSession(S, payload, s)
    IN  IF s.exc THEN Raise(S1, "ConnectionError") ELSE SessionPostAnswered(S1, s)

\* mutant: the session row is inserted once more
InsertSessionLocal_twice(S, row) ==
    IF S.db THEN DbInsertSession(DbInsertSession(S, row), row) ELSE S

\* lines 113-114
InsertSessionLocal(S, row) == IF S.db THEN DbInsertSession(S, row) ELSE S

\* lines 115-130
SubmitSessionRemote(S, payload, s) ==
    IF Truthy(S.remote) THEN SubmitSession(S, payload, s) ELSE S

\* lines 113-130, from the state set_environment_info leaves
FinishSession(S, session_h, run_date, d, s) ==
    IF S.raised # "" THEN S
    ELSE SubmitSessionRemote(
             InsertSessionLocal(S, [session_h |-> session_h, run_date |-> run_date,
                                    scm |-> Scm, description |-> d]),
             [session_h |-> session_h, run_date |-> run_date,
              scm_ref |-> Scm, description |-> d], s)

\* history: the context POST of this call was answered with a status other
\* than CREATED while the local store is configured
ContextPostRejected(cs) ==
    \E i \in 1..Len(cs) :
        cs[i].op = "POST /contexts/" /\ ~cs[i].res.exc /\ cs[i].res.status # CREATED

NoteOutage(S) == [S EXCEPT !.outage = @ \/ (S.db /\ ContextPostRejected(S.calls))]

\* mutant: the baseline is calibrated after the environment is registered
Establish_late(S, session_h, run_date, merged, base, g, p, s) ==
    IF ~merged.ok THEN Raise(S, "IndexError")
    ELSE LET R == set_environment_info(S, HostEnv, g, p)
         IN  FinishSession(NoteOutage(IF R.raised # "" THEN R ELSE prepare(R, base)),
                           session_h, run_date, merged.d, s)

\* lines 96-112, from the state with the session id assigned
Establish(S, session_h, run_date, merged, base, g, p, s) ==
    IF ~merged.ok THEN Raise(S, "IndexError")
    ELSE FinishSession(NoteOutage(set_environment_info(prepare(S, base), HostEnv, g, p)),
                       session_h, run_date, merged.d, s)

\* lines 90-96
SessionId(run_date, description) == Md5(Scm \o run_date \o description)

compute_info(S, description, tags, base, g, p, s) ==
    Establish([S EXCEPT !.now = @ + 1,
                        !.session = SessionId(IsoFormat(S.now), description)],
              SessionId(IsoFormat(S.now), description), IsoFormat(S.now),
              DescriptionPayload(description, tags), base, g, p, s)

----------------------------------------------------------------------------
(* add_test_info(...).  a holds the arguments, m is the answer to         *)
(* POST /metrics/.                                                         *)

\* mutant: the scope filter is skipped
InScope_any(S, kind) == TRUE

\* line 176
InScope(S, kind) == kind \in S.scope

\* line 186
LocalDispatch(S) == S.db /\ S.eid[1] # None

\* mutant: the remote environment id is not checked
RemoteDispatch_noid(S) == Truthy(S.remote)

\* line 203
RemoteDispatch(S) == Truthy(S.remote) /\ S.eid[2] # None

\* mutant: the session reference is the constructor's empty session
SessionRef_initial(S) == <<>>

\* the session reference of a metric or a snapshot: self.__session
SessionRef(S) == S.session

\* lines 179-185: the normalized fields shared by both sinks
MetricFields(S, a) ==
    [session_h |-> SessionRef(S),
     item_start_time |-> IsoFormat(a.item_start_time),
     item |-> a.item,
     item_path |-> a.item_path,
     item_variant |-> Replace(a.item_variant, "-", <<",", " ">>),
     item_loc |-> a.item_loc,
     kind |-> a.kind,
     component |-> StripDot(Format(S.component, a.component)),
     total_time |-> a.total_time,
     user_time |-> a.user_time,
     kernel_time |-> a.kernel_time,
     cpu_usage |-> Ratio(a.user_time + a.kernel_time, a.total_time),
     mem_usage |-> a.mem_usage - S.mem_usage_base[1]]

\* lines 223-229: a status other than CREATED disables the remote
MetricPostAnswered(S, m) ==
    IF m.status # CREATED THEN DisableRemote(S) ELSE S

SubmitMetric(S, payload, m) ==
    LET S1 == SrvPostMetric(S, payload, m)
    IN  IF m.exc THEN Raise(S1, "ConnectionError") ELSE MetricPostAnswered(S1, m)

\* lines 186-202
DispatchLocal(S, f) ==
    IF LocalDispatch(S) THEN DbInsertMetric(S, [env_id |-> S.eid[1], fields |-> f])
    ELSE S

\* lines 203-231
DispatchRemote(S, f, m) ==
    IF RemoteDispatch(S) THEN SubmitMetric(S, [context_h |-> S.eid[2], fields |-> f], m)
    ELSE S

\* mutant: the remote is written first, the local store after it
Dispatch_remote_first(S, f, m) ==
    LET R == DispatchRemote(S, f, m)
    IN  IF R.raised # "" THEN R ELSE DispatchLocal(R, f)

\* lines 186-231
Dispatch(S, f, m) == DispatchRemote(DispatchLocal(S, f), f, m)

add_test_info(S, a, m) ==
    IF ~InScope(S, a.kind) THEN S
    ELSE IF S.mem_usage_base = None THEN Raise(S, "TypeError")
    ELSE IF a.total_time = 0 THEN Raise(S, "ZeroDivisionError")
    ELSE Dispatch(S, MetricFields(S, a), m)

----------------------------------------------------------------------------
(* add_system_memory_snapshot(item_path, item).  m is the answer to       *)
(* POST /system-memory/.  The psutil readings of the payload are left out. *)

\* mutant: only None counts as no remote, "" does not
SnapshotEnabled_notnone(S) == S.remote # None

\* line 238
SnapshotEnabled(S) == Truthy(S.remote)

\* lines 65-67
increment_test_order(S) == [S EXCEPT !.test_order = @ + 1]

\* mutant: a failed snapshot disables the remote like a failed metric
SnapshotAnswered_disabling(S, m) ==
    IF m.exc \/ m.status # CREATED THEN DisableRemote(S) ELSE S

\* lines 268-274: a failure is logged only
SnapshotAnswered(S, m) == S

\* lines 250-274, with the counter already incremented
SubmitSnapshot(S, item_path, item, m) ==
    SnapshotAnswered(
        SrvPostSnapshot(S, [session_h |-> SessionRef(S), test_order |-> S.test_order,
                            item_path |-> item_path, item |-> item,
                            recorded_at |-> IsoFormat(S.now)], m),
        m)

add_system_memory_snapshot(S, item_path, item, m) ==
    IF ~SnapshotEnabled(S) THEN S
    ELSE SubmitSnapshot(increment_test_order(S), item_path, item, m)

----------------------------------------------------------------------------
(* The state machine *)

NoContexts == [h \in {ComputeHash(e) : e \in Envs} |-> 0]

\* __init__ (lines 27-39) for the coordinator's fields
Fresh(d, r, c, sc) ==
    /\ db' = d
    /\ remote_arg' = r
    /\ remote' = r
    /\ component' = c
    /\ scope' = sc
    /\ session' = <<>>
    /\ eid' = <<None, None>>
    /\ mem_usage_base' = None
    /\ test_order' = 0
    /\ calls' = <<>>
    /\ last' = [op |-> "__init__", arg |-> <<>>, raised |-> ""]
    /\ outage' = FALSE

Init ==
    /\ pid = 1
    /\ db \in BOOLEAN
    /\ remote_arg \in {None, Url}
    /\ remote = remote_arg
    /\ component \in Templates
    /\ scope \in Scopes
    /\ session = <<>>
    /\ eid = <<None, None>>
    /\ mem_usage_base = None
    /\ test_order = 0
    /\ now = 0
    /\ dbContexts = NoContexts
    /\ dbSessions = {}
    /\ dbMetrics = {}
    /\ srvContexts = NoContexts
    /\ srvSessions = {}
    /\ srvMetrics = {}
    /\ srvSnapshots = {}
    /\ calls = <<>>
    /\ last = [op |-> "__init__", arg |-> <<>>, raised |-> ""]
    /\ outage = FALSE
    /\ ncalls = 0
    /\ local = <<>>

\* the state after a handler has run: every variable from the record R
Commit(R, op, arg) ==
    /\ ncalls < MaxCalls
    /\ ncalls' = ncalls + 1
    /\ db' = R.db
    /\ remote' = R.remote
    /\ component' = R.component
    /\ scope' = R.scope
    /\ session' = R.session
    /\ eid' = R.eid
    /\ mem_usage_base' = R.mem_usage_base
    /\ test_order' = R.test_order
    /\ now' = R.now
    /\ dbContexts' = R.dbContexts
    /\ dbSessions' = R.dbSessions
    /\ dbMetrics' = R.dbMetrics
    /\ srvContexts' = R.srvContexts
    /\ srvSessions' = R.srvSessions
    /\ srvMetrics' = R.srvMetrics
    /\ srvSnapshots' = R.srvSnapshots
    /\ calls' = R.calls
    /\ outage' = R.outage
    /\ last' = [op |-> op, arg |-> arg, raised |-> R.raised]
    /\ UNCHANGED <<pid, remote_arg, local>>

ComputeInfo ==
    \E i \in SessionInputs, base \in Baselines,
       g \in GetAnswers(remote), p \in PostAnswers(remote), s \in PostAnswers(remote) :
        Commit(compute_info(Pack, i.description, i.tags, base, g, p, s), "compute_info",
               [env |-> HostEnv])

SetEnvironmentInfo ==
    \E env \in Envs, g \in GetAnswers(remote), p \in PostAnswers(remote) :
        Commit(set_environment_info(Pack, env, g, p), "set_environment_info", [env |-> env])

Prepare ==
    \E base \in Baselines : Commit(prepare(Pack, base), "prepare", <<>>)

TestArgs ==
    [item : Items, item_path : {"tests/test_a.py"}, item_variant : Variants,
     item_loc : {"tests/test_a.py:1"}, kind : Kinds, component : Components,
     item_start_time : {0}, total_time : TotalTimes, user_time : UserTimes,
     kernel_time : KernelTimes, mem_usage : MemReadings]

AddTestInfo ==
    \E a \in TestArgs, m \in PostAnswers(remote) :
        Commit(add_test_info(Pack, a, m), "add_test_info",
               [kind |-> a.kind, total_time |-> a.total_time,
                mem_usage |-> a.mem_usage])

AddSystemMemorySnapshot ==
    \E item \in Items, m \in PostAnswers(remote) :
        Commit(add_system_memory_snapshot(Pack, "tests/test_a.py", item, m),
               "add_system_memory_snapshot", [item |-> item])

\* the test-run process ends and the next one constructs its coordinator,
\* with the same configuration, against the same local store and server
NewProcess ==
    /\ pid < MaxProcs
    /\ pid' = pid + 1
    /\ Fresh(db, remote_arg, component, scope)
    /\ UNCHANGED <<now, dbContexts, dbSessions, dbMetrics, srvContexts,
                   srvSessions, srvMetrics, srvSnapshots, ncalls, local>>

Next ==
    \/ ComputeInfo
    \/ SetEnvironmentInfo
    \/ Prepare
    \/ AddTestInfo
    \/ AddSystemMemorySnapshot
    \/ NewProcess

Spec == Init /\ [][Next]_vars

----------------------------------------------------------------------------
(* Reading the log of sink calls *)

Has(cs, op) == \E i \in 1..Len(cs) : cs[i].op = op

Count(cs, op) == Cardinality({i \in 1..Len(cs) : cs[i].op = op})

IsRemote(c) == c.sink = "remote"

PrimaryPosts == {"POST /sessions/", "POST /contexts/", "POST /metrics/"}

\* a POST answered with a status other than CREATED
RejectedPost(c) == IsRemote(c) /\ ~c.res.exc /\ c.res.status # CREATED

\* a POST that failed either way
FailedPost(c) == IsRemote(c) /\ (c.res.exc \/ c.res.status # CREATED)

RemoteDisabled == remote_arg # None /\ remote = EmptyStr

----------------------------------------------------------------------------
\* what C1 asks of each step
C1_Step ==
    /\ \A i \in 1..Len(calls') :
          (calls'[i].op \in PrimaryPosts /\ RejectedPost(calls'[i]))
              => /\ remote' = EmptyStr
                 /\ \A j \in (i + 1)..Len(calls') : ~IsRemote(calls'[j])
    /\ (RemoteDisabled /\ pid' = pid)
          => /\ remote' = EmptyStr
             /\ \A j \in 1..Len(calls') : ~IsRemote(calls'[j])

(* C1: one-way disable.  An operation in which a POST to /sessions/,      *)
(* /contexts/ or /metrics/ is answered with a status other than CREATED   *)
(* ends with the remote disabled and sends nothing to the remote after    *)
(* that answer; and from a state where the remote is disabled, every      *)
(* operation of the same process leaves it disabled and makes no request  *)
(* to the remote.                                                          *)
C1_OneWayDisable == [][C1_Step]_vars

\* an in-scope test, past normalisation, with a remote environment id, that
\* makes no request because the remote was disabled earlier
C1_Witness ==
    /\ RemoteDisabled
    /\ last.op = "add_test_info"
    /\ last.arg.kind \in scope
    /\ last.arg.total_time > 0
    /\ last.raised = ""
    /\ eid[2] # None
    /\ calls # <<>>
    /\ \A i \in 1..Len(calls) : ~IsRemote(calls[i])

----------------------------------------------------------------------------
\* what C2 asks of a compute_info whose context POST is rejected
C2_Establishment ==
    (last'.op = "compute_info" /\ db /\ ContextPostRejected(calls'))
        => /\ last'.raised = ""
           /\ remote' = EmptyStr
           /\ eid'[2] = None
           /\ ~Has(calls', "POST /sessions/")
           /\ dbContexts'[ComputeHash(HostEnv)] > 0
           /\ (dbContexts[ComputeHash(HostEnv)] = 0
                  => Count(calls', "insert_execution_context") = 1)
           /\ eid'[1] = Some(ComputeHash(HostEnv))
           /\ Count(calls', "insert_session") = 1
           /\ \E r \in dbSessions' \ dbSessions : r.session_h = session'
           /\ outage'

\* what C2 asks of the tests that follow it in the process
C2_LaterMetrics ==
    (outage /\ pid' = pid /\ last'.op = "add_test_info"
        /\ last'.arg.kind \in scope /\ last'.arg.total_time > 0)
        => /\ last'.raised = ""
           /\ Count(calls', "insert_metric") = 1
           /\ \E i \in 1..Len(calls') :
                 /\ calls'[i].op = "insert_metric"
                 /\ calls'[i].arg \in dbMetrics'
                 /\ calls'[i].arg.fields.session_h = session'

(* C2: remote outage during establishment.  When compute_info runs with   *)
(* the local store configured and the context POST is answered with a     *)
(* status other than CREATED, it does not raise, the remote ends disabled *)
(* with no remote environment id, no session is posted, the local store   *)
(* holds the context (inserted by this call when it was not there) and    *)
(* gets the session row; and every later in-scope test of the process     *)
(* with total_time > 0 is inserted into the local store.                  *)
C2_RemoteOutage == [][C2_Establishment /\ C2_LaterMetrics]_vars

\* a test recorded locally after such an outage, nothing at the remote
C2_Witness ==
    /\ outage
    /\ last.op = "add_test_info"
    /\ last.arg.kind \in scope
    /\ Has(calls, "insert_metric")
    /\ dbSessions # {}
    /\ srvSessions = {}

----------------------------------------------------------------------------
\* what C3 asks of each step
C3_Step ==
    (last'.op = "add_test_info" /\ last'.arg.kind \notin scope)
        => /\ calls' = <<>>
           /\ last'.raised = ""
           /\ UNCHANGED <<remote, eid, session, test_order, mem_usage_base,
                          dbContexts, dbSessions, dbMetrics, srvContexts,
                          srvSessions, srvMetrics, srvSnapshots>>

(* C3: scope filter.  add_test_info with a kind outside the scope makes   *)
(* no sink call, does not raise, and changes neither the remote flag, the *)
(* environment ids, the session id, the test-order counter nor any sink,  *)
(* whatever the other arguments are.                                       *)
C3_ScopeFilter == [][C3_Step]_vars

\* an out-of-scope test with total_time = 0, when both sinks would take a metric
C3_Witness ==
    /\ last.op = "add_test_info"
    /\ last.arg.kind \notin scope
    /\ last.arg.total_time = 0
    /\ db /\ eid[1] # None
    /\ Truthy(remote) /\ eid[2] # None

----------------------------------------------------------------------------
\* what C4 asks of each step
C4_Step ==
    /\ Has(calls', "insert_metric") => (db /\ eid[1] # None)
    /\ Has(calls', "POST /metrics/")
          => (remote_arg # None /\ Truthy(remote) /\ eid[2] # None)

(* C4: dispatch guards.  A metric is inserted into the local store only   *)
(* when the local store is configured and the local environment id is not *)
(* None, and posted to the remote only when the remote was configured, is *)
(* enabled and the remote environment id is not None.                     *)
C4_DispatchGuards == [][C4_Step]_vars

\* a test whose metric went to both sinks
C4_Witness ==
    /\ last.op = "add_test_info"
    /\ last.raised = ""
    /\ Has(calls, "insert_metric")
    /\ Has(calls, "POST /metrics/")
    /\ Truthy(remote)

----------------------------------------------------------------------------
\* the operation op, with the calls cs, is a snapshot whose POST failed
SnapshotFailed(op, cs) ==
    /\ op = "add_system_memory_snapshot"
    /\ \E i \in 1..Len(cs) : cs[i].op = "POST /system-memory/" /\ FailedPost(cs[i])

\* what C5 asks of each step
C5_Step ==
    /\ SnapshotFailed(last'.op, calls')
          => (last'.raised = "" /\ remote' = remote /\ Truthy(remote'))
    /\ (SnapshotFailed(last.op, calls) /\ last'.op = "add_test_info"
          /\ last'.arg.kind \in scope /\ last'.arg.total_time > 0
          /\ mem_usage_base # None /\ eid[2] # None)
          => Has(calls', "POST /metrics/")

(* C5: a failed snapshot does not disable the remote.  A snapshot whose   *)
(* POST /system-memory/ gets a status other than CREATED or a transport   *)
(* error returns without raising and leaves the remote enabled; and the   *)
(* in-scope test that follows it, when it reaches the dispatch with a     *)
(* remote environment id, posts its metric.                               *)
C5_SnapshotFailureTolerated == [][C5_Step]_vars

\* after a snapshot that failed in transport, with everything the next
\* test needs for its remote write
C5_Witness ==
    /\ SnapshotFailed(last.op, calls)
    /\ calls[Len(calls)].res.exc
    /\ Truthy(remote)
    /\ eid[2] # None
    /\ mem_usage_base # None
    /\ ncalls < MaxCalls

----------------------------------------------------------------------------
\* what C6 asks of each step
C6_Step ==
    last'.op = "add_system_memory_snapshot"
        => /\ \A i \in 1..Len(calls') : calls'[i].sink # "db"
           /\ UNCHANGED <<dbContexts, dbSessions, dbMetrics>>
           /\ ~Truthy(remote)
                 => /\ calls' = <<>>
                    /\ last'.raised = ""
                    /\ UNCHANGED <<db, remote, component, scope, session, eid,
                                   mem_usage_base, test_order, srvContexts,
                                   srvSessions, srvMetrics, srvSnapshots>>

(* C6: the snapshot is remote-only.  add_system_memory_snapshot never     *)
(* calls or changes the local store; with the remote unset or disabled it *)
(* makes no request and changes nothing, the test-order counter included. *)
C6_SnapshotRemoteOnly == [][C6_Step]_vars

\* a snapshot asked for after the remote was disabled, an earlier one sent
C6_Witness ==
    /\ last.op = "add_system_memory_snapshot"
    /\ RemoteDisabled
    /\ calls = <<>>
    /\ test_order > 0

----------------------------------------------------------------------------
(* C7: failure containment.  add_test_info never raises; when the POST to *)
(* /metrics/ fails in transport, the call returns normally with the       *)
(* remote disabled, as after a rejection.                                  *)
C7_NoPropagation ==
    (last.op = "add_test_info"
        /\ \E i \in 1..Len(calls) : calls[i].op = "POST /metrics/" /\ calls[i].res.exc)
        => (last.raised = "" /\ remote = EmptyStr)

----------------------------------------------------------------------------
Resolves(op) == op \in {"set_environment_info", "compute_info"}

LastQuery(cs) ==
    cs[CHOOSE i \in 1..Len(cs) :
          cs[i].op = "query" /\ \A j \in (i + 1)..Len(cs) : cs[j].op # "query"]

\* what C8 asks of each step
C8_Step ==
    (Resolves(last'.op) /\ db)
        => LET h == ComputeHash(last'.arg.env)
           IN  /\ Count(calls', "insert_execution_context") <= 1
               /\ dbContexts[h] > 0
                     => /\ ~Has(calls', "insert_execution_context")
                        /\ dbContexts' = dbContexts
               /\ \A k \in DOMAIN dbContexts' : dbContexts'[k] <= 1
               /\ (last'.raised = "" /\ Has(calls', "query"))
                     => /\ eid'[1] # None
                        /\ eid'[1] = LastQuery(calls').res
                        /\ eid'[1] = DbQueryRow(dbContexts', h)
                        /\ dbContexts[h] > 0 => eid'[1] = DbQueryRow(dbContexts, h)

(* C8: local dedup.  Resolving a context (set_environment_info, also from *)
(* compute_info) with the local store configured inserts the context at   *)
(* most once, and not at all when the store already holds its             *)
(* fingerprint, so the store never holds a fingerprint twice; a call that *)
(* returns leaves as local environment id the result of its last query of *)
(* the store, which is the id the store held before when it held one.     *)
C8_LocalDedup == [][C8_Step]_vars

\* the second process resolves the context the first one inserted
C8_Witness ==
    /\ pid = 2
    /\ db
    /\ last.op = "compute_info"
    /\ last.raised = ""
    /\ Has(calls, "query")
    /\ ~Has(calls, "insert_execution_context")
    /\ eid[1] = Some(ComputeHash(HostEnv))
    /\ dbContexts[ComputeHash(HostEnv)] = 1

----------------------------------------------------------------------------
\* every request of cs was answered with its success code
AllSucceeded(cs) ==
    \A i \in 1..Len(cs) :
        IsRemote(cs[i])
            => /\ ~cs[i].res.exc
               /\ cs[i].res.status = (IF cs[i].op = "GET /contexts/" THEN OK ELSE CREATED)

Ops(cs) == [i \in 1..Len(cs) |-> cs[i].op]

\* what C9 asks of each step; the tags are well formed when no IndexError
\* is raised
C9_Step ==
    (last'.op = "compute_info" /\ last'.raised # "IndexError"
        /\ db /\ Truthy(remote)
        /\ dbContexts[ComputeHash(HostEnv)] = 0
        /\ srvContexts[ComputeHash(HostEnv)] = 0
        /\ AllSucceeded(calls'))
        => /\ last'.raised = ""
           /\ Ops(calls') = <<"query", "GET /contexts/", "insert_execution_context",
                              "query", "POST /contexts/", "insert_session",
                              "POST /sessions/">>
           /\ dbContexts'[ComputeHash(HostEnv)] = 1
           /\ srvContexts'[ComputeHash(HostEnv)] = 1
           /\ Cardinality(dbSessions') = Cardinality(dbSessions) + 1
           /\ Cardinality(srvSessions') = Cardinality(srvSessions) + 1

(* C9: fresh establishment.  compute_info with both sinks configured, the *)
(* host's context registered in neither and every request answered with   *)
(* its success code makes these calls in this order: local lookup, remote  *)
(* lookup, local context insert, local read-back, context POST, local      *)
(* session insert, session POST; so one context and one session per sink,  *)
(* the context before the session.                                         *)
C9_FreshEstablishment == [][C9_Step]_vars

\* the first compute_info of a process with both sinks, all answered well
C9_Witness ==
    /\ last.op = "compute_info"
    /\ last.raised = ""
    /\ ncalls = 1
    /\ AllSucceeded(calls)
    /\ Has(calls, "POST /contexts/")
    /\ Has(calls, "insert_execution_context")
    /\ Cardinality(dbSessions) = 1
    /\ Cardinality(srvSessions) = 1

----------------------------------------------------------------------------
ContextOps == {"query", "insert_execution_context", "GET /contexts/", "POST /contexts/"}

\* the session reference a metric or snapshot call carries
SessionOfCall(c) ==
    IF c.op = "POST /system-memory/" THEN c.arg.session_h ELSE c.arg.fields.session_h

\* what C10 asks of each step
C10_Step ==
    /\ last'.op \in {"add_test_info", "add_system_memory_snapshot"}
          => /\ session' = session
             /\ eid' = eid
             /\ \A i \in 1..Len(calls') :
                   /\ calls'[i].op \notin ContextOps
                   /\ SessionOfCall(calls'[i]) = session
    /\ session' # session => last'.op \in {"compute_info", "__init__"}

(* C10: identity is frozen.  add_test_info and add_system_memory_snapshot *)
(* change neither the session id nor the environment ids, make no lookup  *)
(* or registration of a context, and every metric and snapshot they send  *)
(* carries the session id of the coordinator, the one the last            *)
(* compute_info assigned.                                                  *)
C10_IdentityFrozen == [][C10_Step]_vars

\* a metric sent to both sinks under an established session
C10_Witness ==
    /\ last.op = "add_test_info"
    /\ session # <<>>
    /\ Has(calls, "insert_metric")
    /\ Has(calls, "POST /metrics/")
    /\ \A i \in 1..Len(calls) : SessionOfCall(calls[i]) = session


----------------------------------------------------------------------------
(* The description payload on its own: lines 98-109 of compute_info       *)
(* applied to descriptions and tag lists drawn from a wider set.          *)

MaxTags == 2

TagDescriptions == {<<>>, <<"x">>}

TagPool ==
    { StrTag(<<"y", "=", "2">>),
      StrTag(<<"y", "=", "3", "=", "4">>),
      StrTag(<<"description", "=", "z">>),
      StrTag(<<"y">>),
      SeqTag(<< <<"ci", "=", "k">>, <<"y", "=", "5">> >>),
      SeqTag(<<>>) }

TagLists == UNION { [1..n -> TagPool] : n \in 0..MaxTags }

\* every variable but local
coordinator ==
    <<pid, remote_arg, db, remote, component, scope, session, eid,
      mem_usage_base, test_order, now, dbContexts, dbSessions, dbMetrics,
      srvContexts, srvSessions, srvMetrics, srvSnapshots, calls, last,
      outage, ncalls>>

\* a coordinator constructed with store d and remote r, nothing called yet
Constructed(d, r) ==
    /\ pid = 1
    /\ db = d
    /\ remote_arg = r
    /\ remote = r
    /\ component \in Templates
    /\ scope \in Scopes
    /\ session = <<>>
    /\ eid = <<None, None>>
    /\ mem_usage_base = None
    /\ test_order = 0
    /\ now = 0
    /\ dbContexts = NoContexts
    /\ dbSessions = {}
    /\ dbMetrics = {}
    /\ srvContexts = NoContexts
    /\ srvSessions = {}
    /\ srvMetrics = {}
    /\ srvSnapshots = {}
    /\ calls = <<>>
    /\ last = [op |-> "__init__", arg |-> <<>>, raised |-> ""]
    /\ outage = FALSE
    /\ ncalls = 0

InitTags ==
    /\ Constructed(FALSE, None)
    /\ local \in [pc : {"line 98"}, description : TagDescriptions,
                  tags : TagLists, d : {<<>>}, raised : {""}]

\* lines 98-109: d when the loop has ended, or the IndexError of a tag
\* without "="
MergeDescription ==
    /\ local.pc = "line 98"
    /\ local' = LET m == DescriptionPayload(local.description, local.tags)
                IN  [local EXCEPT !.pc = "line 109", !.d = m.d,
                                  !.raised = IF m.ok THEN "" ELSE "IndexError"]
    /\ UNCHANGED coordinator

NextTags == MergeDescription

SpecTags == InitTags /\ [][NextTags]_vars

\* the key=value strings of a tag list, in order
RECURSIVE TagStrings(_)
TagStrings(tags) ==
    IF tags = <<>> THEN <<>>
    ELSE (IF Head(tags).str THEN <<Head(tags).s>> ELSE Head(tags).subs)
         \o TagStrings(Tail(tags))

WellFormed(tags) ==
    \A i \in 1..Len(TagStrings(tags)) :
        \E j \in 1..Len(TagStrings(tags)[i]) : TagStrings(tags)[i][j] = "="

\* the key of a key=value string is its longest prefix without "=", the
\* value all that follows the "=" after it
KeyLen(str) ==
    CHOOSE n \in 0..Len(str) :
        /\ \A j \in 1..n : str[j] # "="
        /\ n < Len(str) => str[n + 1] = "="

Entry(str) == <<SubSeq(str, 1, KeyLen(str)), SubSeq(str, KeyLen(str) + 2, Len(str))>>

\* every entry that sets a key, in the order the claim gives
Entries(description, tags) ==
    CiInfo
    \o (IF description # <<>> THEN << << <<"description">>, description >> >> ELSE <<>>)
    \o [i \in 1..Len(TagStrings(tags)) |-> Entry(TagStrings(tags)[i])]

\* the mapping in which, for every key, the last entry that sets it wins
LastWins(es) ==
    [k \in {es[i][1] : i \in 1..Len(es)} |->
        es[CHOOSE i \in 1..Len(es) :
              es[i][1] = k /\ \A j \in (i + 1)..Len(es) : es[j][1] # k][2]]

\* the mapping a dict holds
AsMapping(d) ==
    [k \in {d[i][1] : i \in 1..Len(d)} |->
        d[CHOOSE i \in 1..Len(d) : d[i][1] = k][2]]

UniqueKeys(d) == \A i, j \in 1..Len(d) : d[i][1] = d[j][1] => i = j

(* C11: when every tag is a key=value string or a sequence of them, the   *)
(* description payload is the mapping that starts from the CI metadata,   *)
(* sets "description" to a non-empty user description and applies every   *)
(* tag entry left to right, split at its first "=": for every key the     *)
(* value of the last entry that sets it.                                  *)
C11_TagMerging ==
    (local.pc = "line 109" /\ WellFormed(local.tags)) =>
        /\ local.raised = ""
        /\ UniqueKeys(local.d)
        /\ AsMapping(local.d) = LastWins(Entries(local.description, local.tags))

C11_Witness ==
    /\ local.pc = "line 109"
    /\ WellFormed(local.tags)
    /\ local.description # <<>>
    /\ \E i \in 1..Len(local.tags) : ~local.tags[i].str /\ local.tags[i].subs # <<>>
    /\ \E i, j \in 1..Len(Entries(local.description, local.tags)) :
          /\ i < j
          /\ Entries(local.description, local.tags)[i][1]
                = Entries(local.description, local.tags)[j][1]
          /\ Entries(local.description, local.tags)[i][2]
                # Entries(local.description, local.tags)[j][2]
    /\ <<"y">> \in DOMAIN AsMapping(local.d)
    /\ AsMapping(local.d)[<<"y">>] = <<"3", "=", "4">>

----------------------------------------------------------------------------
\* a lookup answered with a status other than OK
RejectedLookup(c) == c.op = "GET /contexts/" /\ ~c.res.exc /\ c.res.status # OK

(* C12: an operation whose lookup GET /contexts/{fingerprint} is answered *)
(* with a status other than OK ends with the remote disabled and sends no *)
(* POST /contexts/ after that answer.                                     *)
C12_LookupFailureDisables ==
    \A i \in 1..Len(calls) :
        RejectedLookup(calls[i])
            => /\ remote = EmptyStr
               /\ \A j \in (i + 1)..Len(calls) : calls[j].op # "POST /contexts/"

----------------------------------------------------------------------------
(* Test-run processes side by side: each has its own coordinator (its     *)
(* self.__remote and self.__eid, held in local[p] with the locals of its  *)
(* set_environment_info call) and all work against the same local store   *)
(* and the same server.  A step is one request to a sink with the code    *)
(* up to the next.  The server answers every request with its success     *)
(* code, so that the runs differ in their interleaving only.              *)

Procs == 1..MaxProcs

InitRace ==
    /\ \E d \in BOOLEAN, r \in {None, Url} :
          /\ Constructed(d, r)
          /\ local \in [Procs -> [pc : {"line 72"}, env : Envs, remote : {r},
                                  eid : {<<None, None>>}, db_id : {None},
                                  remote_id : {None}]]

\* the coordinator of process p, as the handlers' operators read it
ProcS(p) == [Pack EXCEPT !.remote = local[p].remote, !.eid = local[p].eid]

\* process p moves to the locals rec, leaving the stores' contexts as given
RaceStep(p, rec, dbc, srvc) ==
    /\ local' = [local EXCEPT ![p] = rec]
    /\ dbContexts' = dbc
    /\ srvContexts' = srvc
    /\ UNCHANGED <<pid, remote_arg, db, remote, component, scope, session, eid,
                   mem_usage_base, test_order, now, dbSessions, dbMetrics,
                   srvSessions, srvMetrics, srvSnapshots, calls, last, outage,
                   ncalls>>

\* lines 71-73
QueryLocal(p) ==
    /\ local[p].pc = "line 72"
    /\ RaceStep(p, [local[p] EXCEPT
                      !.db_id = IF db THEN DbQueryRow(dbContexts, ComputeHash(local[p].env))
                                ELSE None,
                      !.pc = "line 77"],
                dbContexts, srvContexts)

\* lines 74-87 and 133-134
LookupRemote(p) ==
    /\ local[p].pc = "line 77"
    /\ LET remote_id == IF Truthy(local[p].remote)
                        THEN RemoteIdOfLookup(ProcS(p), ComputeHash(local[p].env), Resp(OK))
                        ELSE None
       IN  RaceStep(p, [local[p] EXCEPT !.remote_id = remote_id,
                                        !.eid = <<local[p].db_id, remote_id>>,
                                        !.pc = "line 136"],
                    dbContexts, srvContexts)

\* lines 136-137
InsertLocal(p) ==
    /\ local[p].pc = "line 136"
    /\ IF NeedsLocalInsert(ProcS(p), local[p].db_id)
       THEN RaceStep(p, [local[p] EXCEPT !.pc = "line 138"],
                     DbInsertExecutionContext(ProcS(p), ComputeHash(local[p].env)).dbContexts,
                     srvContexts)
       ELSE RaceStep(p, [local[p] EXCEPT !.pc = "line 139"], dbContexts, srvContexts)

\* line 138
ReadBack(p) ==
    /\ local[p].pc = "line 138"
    /\ RaceStep(p, [local[p] EXCEPT
                      !.db_id = DbQueryRow(dbContexts, ComputeHash(local[p].env)),
                      !.pc = "line 139"],
                dbContexts, srvContexts)

\* lines 139-151
PostRemote(p) ==
    /\ local[p].pc = "line 139"
    /\ IF NeedsRemoteInsert(ProcS(p), local[p].remote_id)
       THEN LET posted == RemoteRegister(ProcS(p), ComputeHash(local[p].env), Resp(CREATED))
            IN  RaceStep(p, [local[p] EXCEPT !.remote_id = posted.remote_id,
                                             !.remote = posted.S.remote,
                                             !.pc = "line 152"],
                         dbContexts, posted.S.srvContexts)
       ELSE RaceStep(p, [local[p] EXCEPT !.pc = "line 152"], dbContexts, srvContexts)

\* line 152
AssignEid(p) ==
    /\ local[p].pc = "line 152"
    /\ RaceStep(p, [local[p] EXCEPT !.eid = <<local[p].db_id, local[p].remote_id>>,
                                    !.pc = "returned"],
                dbContexts, srvContexts)

NextRace ==
    \E p \in Procs :
        \/ QueryLocal(p)
        \/ LookupRemote(p)
        \/ InsertLocal(p)
        \/ ReadBack(p)
        \/ PostRemote(p)
        \/ AssignEid(p)

SpecRace == InitRace /\ [][NextRace]_vars

(* C13: whatever the interleaving of the processes' lookups and creates,  *)
(* each sink has received at most one creation of every fingerprint: at   *)
(* most one insert_execution_context and at most one POST /contexts/.     *)
C13_CreatedOnce ==
    \A h \in DOMAIN dbContexts : dbContexts[h] <= 1 /\ srvContexts[h] <= 1

----------------------------------------------------------------------------
(* Tests run in parallel in one process: threads share one coordinator,   *)
(* established by a compute_info that every sink accepted, and each runs  *)
(* one add_test_info or one add_system_memory_snapshot.  The code takes   *)
(* no lock, so a step is one read or one write of a field of the          *)
(* coordinator, or one request, with the code up to the next; local[t]    *)
(* holds the locals of thread t.                                          *)

MaxThreads == 2

Threads == 1..MaxThreads

\* the coordinator __init__ leaves, as a record
FreshRecord(d, r, c, sc) ==
    [db |-> d, remote |-> r, component |-> c, scope |-> sc,
     session |-> <<>>, eid |-> <<None, None>>, mem_usage_base |-> None,
     test_order |-> 0, now |-> 0,
     dbContexts |-> NoContexts, dbSessions |-> {}, dbMetrics |-> {},
     srvContexts |-> NoContexts, srvSessions |-> {},
     srvMetrics |-> {}, srvSnapshots |-> {},
     calls |-> <<>>, raised |-> "", outage |-> FALSE]

\* the coordinator after compute_info("x", ["y=2"]) with every answer a success
Established(d, c, sc) ==
    compute_info(FreshRecord(d, Url, c, sc), <<"x">>, << StrTag(<<"y", "=", "2">>) >>,
                 CHOOSE base \in Baselines : TRUE, Resp(OK), Resp(CREATED), Resp(CREATED))

\* the locals of a thread entering op
ThreadStart(op) ==
    [op |-> op,
     pc |-> IF op = "add_test_info" THEN "line 176" ELSE "line 238",
     f |-> <<>>, url |-> None, answer |-> Resp(CREATED), loaded |-> 0,
     test_order |-> 0, posted |-> FALSE, sent_disabled |-> FALSE]

InitThreads ==
    /\ \E d \in BOOLEAN, c \in Templates, sc \in Scopes :
          /\ pid = 1
          /\ remote_arg = Url
          /\ db = Established(d, c, sc).db
          /\ remote = Established(d, c, sc).remote
          /\ component = Established(d, c, sc).component
          /\ scope = Established(d, c, sc).scope
          /\ session = Established(d, c, sc).session
          /\ eid = Established(d, c, sc).eid
          /\ mem_usage_base = Established(d, c, sc).mem_usage_base
          /\ test_order = Established(d, c, sc).test_order
          /\ now = Established(d, c, sc).now
          /\ dbContexts = Established(d, c, sc).dbContexts
          /\ dbSessions = Established(d, c, sc).dbSessions
          /\ dbMetrics = Established(d, c, sc).dbMetrics
          /\ srvContexts = Established(d, c, sc).srvContexts
          /\ srvSessions = Established(d, c, sc).srvSessions
          /\ srvMetrics = Established(d, c, sc).srvMetrics
          /\ srvSnapshots = Established(d, c, sc).srvSnapshots
          /\ calls = Established(d, c, sc).calls
          /\ outage = Established(d, c, sc).outage
    /\ last = [op |-> "compute_info", arg |-> [env |-> HostEnv], raised |-> ""]
    /\ ncalls = 1
    /\ local \in [Threads -> {ThreadStart(op) :
                               op \in {"add_test_info", "add_system_memory_snapshot"}}]

\* thread t moves to the locals rec, leaving the coordinator and the sinks as in R
ThreadStep(t, rec, R) ==
    /\ local' = [local EXCEPT ![t] = rec]
    /\ remote' = R.remote
    /\ test_order' = R.test_order
    /\ dbMetrics' = R.dbMetrics
    /\ srvMetrics' = R.srvMetrics
    /\ srvSnapshots' = R.srvSnapshots
    /\ UNCHANGED <<pid, remote_arg, db, component, scope, session, eid,
                   mem_usage_base, now, dbContexts, dbSessions, srvContexts,
                   srvSessions, calls, last, outage, ncalls>>

\* lines 176-202, for a test in scope with total_time > 0
MetricLocal(t) ==
    /\ local[t].pc = "line 176"
    /\ \E a \in TestArgs :
          /\ InScope(Pack, a.kind)
          /\ a.total_time > 0
          /\ ThreadStep(t, [local[t] EXCEPT !.f = MetricFields(Pack, a), !.pc = "line 203"],
                        DispatchLocal(Pack, MetricFields(Pack, a)))

\* line 203: the flag is read
MetricCheck(t) ==
    /\ local[t].pc = "line 203"
    /\ ThreadStep(t, [local[t] EXCEPT !.pc = IF RemoteDispatch(Pack) THEN "line 204"
                                             ELSE "returned"],
                  Pack)

\* line 204: the address is read again for the URL
MetricUrl(t) ==
    /\ local[t].pc = "line 204"
    /\ ThreadStep(t, [local[t] EXCEPT !.url = remote, !.pc = "line 222"], Pack)

\* lines 205-222: requests.post raises on a URL without a host, and on a
\* transport failure
MetricPost(t) ==
    /\ local[t].pc = "line 222"
    /\ IF local[t].url = EmptyStr
       THEN ThreadStep(t, [local[t] EXCEPT !.pc = "raised"], Pack)
       ELSE \E m \in PostResponses :
               ThreadStep(t, [local[t] EXCEPT !.answer = m, !.posted = TRUE,
                                              !.sent_disabled = (remote = EmptyStr),
                                              !.pc = IF m.exc THEN "raised" ELSE "line 223"],
                          SrvPostMetric(Pack, [context_h |-> eid[2], fields |-> local[t].f], m))

\* lines 223-229
MetricAnswered(t) ==
    /\ local[t].pc = "line 223"
    /\ ThreadStep(t, [local[t] EXCEPT !.pc = "returned"],
                  MetricPostAnswered(Pack, local[t].answer))

\* lines 238-239: the flag is read
SnapshotCheck(t) ==
    /\ local[t].pc = "line 238"
    /\ ThreadStep(t, [local[t] EXCEPT !.pc = IF SnapshotEnabled(Pack) THEN "line 66 load"
                                             ELSE "returned"],
                  Pack)

\* line 66, self.__test_order += 1: the read
CounterLoad(t) ==
    /\ local[t].pc = "line 66 load"
    /\ ThreadStep(t, [local[t] EXCEPT !.loaded = test_order, !.pc = "line 66 store"], Pack)

\* line 66: the write of the value read, plus one
CounterStore(t) ==
    /\ local[t].pc = "line 66 store"
    /\ ThreadStep(t, [local[t] EXCEPT !.pc = "line 67"],
                  [Pack EXCEPT !.test_order = local[t].loaded + 1])

\* lines 67 and 241: the counter is read again for the returned value
CounterReturn(t) ==
    /\ local[t].pc = "line 67"
    /\ ThreadStep(t, [local[t] EXCEPT !.test_order = test_order, !.pc = "line 267"], Pack)

\* lines 243-267: the address is read again for the URL
SnapshotUrl(t) ==
    /\ local[t].pc = "line 267"
    /\ ThreadStep(t, [local[t] EXCEPT !.url = remote, !.pc = "line 269"], Pack)

\* lines 268-274: any exception is caught
SnapshotPost(t) ==
    /\ local[t].pc = "line 269"
    /\ IF local[t].url = EmptyStr
       THEN ThreadStep(t, [local[t] EXCEPT !.pc = "returned"], Pack)
       ELSE \E m \in PostResponses :
               ThreadStep(t, [local[t] EXCEPT !.answer = m, !.posted = TRUE,
                                              !.sent_disabled = (remote = EmptyStr),
                                              !.pc = "returned"],
                          SnapshotAnswered(
                              SrvPostSnapshot(Pack,
                                  [session_h |-> SessionRef(Pack),
                                   test_order |-> local[t].test_order,
                                   item_path |-> "tests/test_a.py",
                                   item |-> CHOOSE item \in Items : TRUE,
                                   recorded_at |-> IsoFormat(now)], m),
                              m))

NextThreads ==
    \E t \in Threads :
        \/ MetricLocal(t)
        \/ MetricCheck(t)
        \/ MetricUrl(t)
        \/ MetricPost(t)
        \/ MetricAnswered(t)
        \/ SnapshotCheck(t)
        \/ CounterLoad(t)
        \/ CounterStore(t)
        \/ CounterReturn(t)
        \/ SnapshotUrl(t)
        \/ SnapshotPost(t)

SpecThreads == InitThreads /\ [][NextThreads]_vars

(* C14: no invocation builds its request URL from the remote address      *)
(* after the health flag was cleared, and none sends a request to the     *)
(* remote while the flag is cleared.                                      *)
C14_NoUseAfterDisable ==
    \A t \in Threads : local[t].url # EmptyStr /\ ~local[t].sent_disabled

(* C15: no two snapshots submitted by concurrent calls carry the same     *)
(* test_order.                                                            *)
C15_DistinctTestOrder ==
    \A t, u \in Threads :
        (/\ t # u
         /\ local[t].op = "add_system_memory_snapshot" /\ local[t].posted
         /\ local[u].op = "add_system_memory_snapshot" /\ local[u].posted)
            => local[t].test_order # local[u].test_order

----------------------------------------------------------------------------
(* C16: add_test_info with a kind in scope and total_time = 0, the        *)
(* baseline calibrated, returns without raising.                          *)
C16_ZeroDenominator ==
    (/\ last.op = "add_test_info"
     /\ last.arg.kind \in scope
     /\ last.arg.total_time = 0
     /\ mem_usage_base # None)
        => last.raised = ""

----------------------------------------------------------------------------
MetricWrites == {"insert_metric", "POST /metrics/"}

\* what C17 asks of each step
C17_Step ==
    /\ (last'.op = "add_test_info" /\ mem_usage_base = None)
          => /\ \A i \in 1..Len(calls') : calls'[i].op \notin MetricWrites
             /\ dbMetrics' = dbMetrics
             /\ srvMetrics' = srvMetrics
    /\ (last'.op = "compute_info" /\ calls' # <<>>)
          => mem_usage_base' # None
    /\ \A i \in 1..Len(calls') :
          calls'[i].op \in MetricWrites
              => /\ last'.op = "add_test_info"
                 /\ mem_usage_base # None
                 /\ calls'[i].arg.fields.mem_usage
                        = last'.arg.mem_usage - mem_usage_base[1]

(* C17: baseline before metrics.  add_test_info called before any         *)
(* calibration writes no metric to either sink; a compute_info that has   *)
(* made any request to a sink (the environment lookup is its first) has   *)
(* calibrated the baseline, whether or not it went on to return; and      *)
(* every metric written to a sink carries mem_usage equal to the raw      *)
(* reading minus the calibrated baseline.                                 *)
C17_BaselineBeforeMetrics == [][C17_Step]_vars

C17_Witness ==
    /\ last.op = "add_test_info"
    /\ Has(calls, "insert_metric")
    /\ \E i \in 1..Len(calls) :
          /\ calls[i].op = "POST /metrics/"
          /\ calls[i].arg.fields.mem_usage = last.arg.mem_usage - mem_usage_base[1]
          /\ calls[i].arg.fields.mem_usage # last.arg.mem_usage

----------------------------------------------------------------------------
\* an enabled remote has a remote environment id
RemoteHasId(r, e) == Truthy(r) => e[2] # None

\* what C18 asks of each step: the property holds when compute_info or
\* set_environment_info returns, and the next call of the process, whatever
\* it is, does not break it
C18_Step ==
    /\ (Resolves(last'.op) /\ last'.raised = "") => RemoteHasId(remote', eid')
    /\ (Resolves(last.op) /\ last.raised = "" /\ pid' = pid)
          => RemoteHasId(remote', eid')

(* C18: in every state reached after compute_info or set_environment_info *)
(* has returned, a remote that is still enabled has a remote environment  *)
(* id, so that add_test_info never skips the remote for a missing id.     *)
C18_EnabledRemoteHasId == [][C18_Step]_vars

----------------------------------------------------------------------------
(* C19: every metric POSTed to the remote carries a session id whose      *)
(* POST /sessions/ the remote answered CREATED, and a context id the      *)
(* remote holds.                                                          *)
C19_MetricsReferToCreated ==
    \A i \in 1..Len(calls) :
        calls[i].op = "POST /metrics/"
            => /\ \E s \in srvSessions : s.session_h = calls[i].arg.fields.session_h
               /\ calls[i].arg.context_h # None
               /\ srvContexts[calls[i].arg.context_h[1]] > 0

----------------------------------------------------------------------------
\* what C20 asks of each step
C20_Step ==
    /\ (last'.op = "add_test_info" /\ db /\ Has(calls', "POST /metrics/"))
          => \E i, j \in 1..Len(calls') :
                /\ i < j
                /\ calls'[i].op = "insert_metric"
                /\ calls'[j].op = "POST /metrics/"
                /\ calls'[i].arg.fields = calls'[j].arg.fields
                /\ calls'[i].arg \in dbMetrics'
    /\ dbMetrics \subseteq dbMetrics'
    /\ db' => {m.fields : m \in srvMetrics'} \subseteq {r.fields : r \in dbMetrics'}

(* C20: sink consistency.  With the local store configured, a test whose  *)
(* metric is POSTed to the remote has been inserted into the local store  *)
(* before, with the same field values, and the row is there whatever the  *)
(* remote answers; no step removes or changes a row of the local store;   *)
(* so the metrics the remote accepted are, field for field, among those   *)
(* of the local store.                                                    *)
C20_LocalBeforeRemote == [][C20_Step]_vars

C20_Witness ==
    /\ db
    /\ last.op = "add_test_info"
    /\ \E i \in 1..Len(calls) : calls[i].op = "POST /metrics/" /\ FailedPost(calls[i])
    /\ \E i \in 1..Len(calls) : calls[i].op = "insert_metric" /\ calls[i].arg \in dbMetrics
    /\ srvMetrics # {}
    /\ {m.fields : m \in srvMetrics} \subseteq {r.fields : r \in dbMetrics}

============================================================================
